---- MODULE Spec2Model ----
(***************************************************************************)
(* Model of deno-build: the build() orchestration (src/src/build.ts), the  *)
(* esbuild backend (src/src/esbuild-bundler.ts) and the debounced watch    *)
(* loop watchAndRebuild().                                                 *)
(*                                                                         *)
(* An invocation of build() is a record whose pc names the await at which  *)
(* the async function is suspended; an action is the completion of that    *)
(* await together with the synchronous code that follows it, up to the     *)
(* next await, return or throw.                                            *)
(***************************************************************************)
EXTENDS Integers, Sequences, FiniteSets, TLC

VARIABLES
    options,          \* BuildOptions of the run: strict, useEsbuild, minify, skipWrite
    fs,               \* file system: entry file, source version, outDir, outFile
    proc,             \* "running" | "exited" (Deno.exit)
    exitCode,         \* status passed to Deno.exit, -1 while running
    builds,           \* in-flight and settled invocations of build()
    calls,            \* number of direct build() calls made by the library caller
    watching,         \* "off" | "subscribed" | "terminated" (Deno.watchFs subscription)
    debounceTimeout,  \* the loop's timer handle, 0 is undefined
    timers,           \* runtime timer table: id -> ms remaining
    nextTimerId,      \* next id setTimeout hands out
    evCount,          \* number of file-system events delivered to the loop
    lastEvent,        \* the last delivered event
    sinceEvent,       \* ms since the last qualifying event (saturates at DebounceDelay)
    burstLen,         \* qualifying events in the current burst (each < DebounceDelay after the one before)
    burstStarts,      \* rebuilds started since the current burst began
    qualCount,        \* qualifying events seen
    sawFailure,       \* some rebuild of the loop has thrown
    main,             \* the CLI's main(): its arguments, its position, what it printed
    outWatch,         \* the output path as the watcher sees it: the path, whether it
                      \* lies in a watched tree, whether a change of it is still to
                      \* be reported
    loop2             \* a second watchAndRebuild loop of the process: its subscription,
                      \* its timer handle, the timers it created, the events it received

vars == <<options, fs, proc, exitCode, builds, calls, watching, debounceTimeout,
          timers, nextTimerId, evCount, lastEvent, sinceEvent, burstLen, burstStarts,
          qualCount, sawFailure, main, loop2, outWatch>>

watchVars_noTimers == <<watching, debounceTimeout, nextTimerId, evCount, lastEvent,
                        sinceEvent, burstLen, burstStarts, qualCount, sawFailure>>

watchVars == <<watching, debounceTimeout, timers, nextTimerId, evCount, lastEvent,
               sinceEvent, burstLen, burstStarts, qualCount, sawFailure>>

----------------------------------------------------------------------------
(* Bounds *)

MaxInFlight == 2     \* build() invocations that may be in flight at once
MaxCalls == 2        \* direct build() calls of the library caller
MaxEvents == 3       \* file-system events delivered to one watch loop
NSrc == 2            \* versions of the source module graph
TickMs == 50         \* granularity of the clock, in ms

(* Program constants *)

DebounceDelay == 100

----------------------------------------------------------------------------
(* Code values.  A bundle is identified by the backend that produced it,   *)
(* the source version it was produced from and whether it is minified.     *)

Undefined == [by |-> "undefined", src |-> 0, min |-> FALSE, map |-> "undefined"]
NoFile == [by |-> "nofile", src |-> 0, min |-> FALSE, map |-> "undefined"]
OldFile == [by |-> "old", src |-> 0, min |-> FALSE, map |-> "undefined"]

IsCode(c) == c.by \in {"emit", "esbuild"}

\* @deno/emit bundle(entryPoint, bundleOptions): result.code
bundle(s, m) == [by |-> "emit", src |-> s, min |-> FALSE, map |-> m]

\* esbuild.transform(code, { minify: true }): result.code
minifyCode(c) == [c EXCEPT !.min = TRUE]

\* esbuild.build({ entryPoints, outfile, bundle, format, minify }): the text
\* esbuild writes to outfile
EsbuildBundle(s, mi, m) == [by |-> "esbuild", src |-> s, min |-> mi, map |-> m]

----------------------------------------------------------------------------
(* Import-map discovery *)

Candidates == <<"deno.json", "deno.jsonc", "import_map.json">>

RECURSIVE FirstExisting(_, _)
FirstExisting(present, i) ==
    IF i > Len(Candidates) THEN "undefined"
    ELSE IF Candidates[i] \in present THEN Candidates[i]
    ELSE FirstExisting(present, i + 1)

findImportMapLastWins(present) ==
    IF "import_map.json" \in present THEN "import_map.json"
    ELSE IF "deno.jsonc" \in present THEN "deno.jsonc"
    ELSE IF "deno.json" \in present THEN "deno.json"
    ELSE "undefined"
findImportMap(present) == FirstExisting(present, 1)

----------------------------------------------------------------------------
(* build() *)

Slots == 1..MaxInFlight

\* observer: what the caller's previous call started from and left behind
NoPrev == [pc |-> "none", ret |-> Undefined, src |-> 0, maps |-> {},
           outDir0 |-> FALSE, outFile |-> NoFile]

IdleBuild ==
    [pc |-> "idle", code |-> Undefined, importMapPath |-> "undefined",
     err |-> "none", ret |-> Undefined, trace |-> <<>>, fs0 |-> fs, by |-> "none",
     tc |-> "none", prevFailed |-> FALSE, prev |-> NoPrev]

Settled(b) == builds[b].pc \in {"returned", "threw"}

\* build() up to its first await: destructure options, resolve the paths,
\* call exists(entryPath)
StartBuild(who) ==
    [pc |-> "exists", code |-> Undefined, importMapPath |-> "undefined",
     err |-> "none", ret |-> Undefined, trace |-> <<"exists">>, fs0 |-> fs,
     by |-> who, tc |-> "none", prevFailed |-> sawFailure, prev |-> NoPrev]

Invoke(r, op) == [r EXCEPT !.pc = op, !.trace = Append(@, op)]

\* return code
Return(r) == [r EXCEPT !.pc = "returned", !.ret = r.code]

\* the awaited operation rejects with error e
Fail(r, e) == [r EXCEPT !.err = e]

\* throw new Error(...) outside the try block
Throw(r, e) == [r EXCEPT !.pc = "threw", !.err = e]

\* catch (error) { console.error(...); throw error; }
CatchSwallow(r) == [r EXCEPT !.pc = "returned", !.ret = r.code,
                             !.trace = Append(@, "log:failed")]
Catch(r) == [r EXCEPT !.pc = "threw", !.trace = Append(@, "log:failed")]

\* the direct call of the library caller
CallBuild ==
    /\ proc = "running"
    /\ watching = "off"
    /\ calls < MaxCalls
    /\ builds[1].pc \in {"idle", "returned", "threw"}
    /\ builds' = [builds EXCEPT ![1] =
           [StartBuild("caller") EXCEPT !.prev =
               IF builds[1].pc = "idle" THEN NoPrev
               ELSE [pc |-> builds[1].pc, ret |-> builds[1].ret,
                     src |-> builds[1].fs0.src, maps |-> builds[1].fs0.maps,
                     outDir0 |-> builds[1].fs0.outDir, outFile |-> fs.outFile]]]
    /\ calls' = calls + 1
    /\ UNCHANGED <<outWatch, loop2, main, options, fs, proc, exitCode, watchVars>>

\* the user edits the sources between two calls
EditSource ==
    /\ proc = "running"
    /\ watching = "off"
    /\ calls < MaxCalls
    /\ Settled(1)
    /\ \E s \in (1..NSrc) \ {fs.src} : fs' = [fs EXCEPT !.src = s]
    /\ UNCHANGED <<outWatch, loop2, main, options, proc, exitCode, builds, calls, watchVars>>

\* await exists(entryPath)
existsAlways(f) == TRUE
exists(f) == f.entry

\* if (!(await exists(entryPath))) { console.error(...); Deno.exit(1); }
\* if (strict) { ...; await typeCheck(entryPath) }  else  await findImportMap()
ExistsDone(b) ==
    /\ proc = "running"
    /\ builds[b].pc = "exists"
    /\ IF ~exists(fs)
       THEN /\ builds' = [builds EXCEPT ![b] =
                   [@ EXCEPT !.pc = "exit", !.err = "entry",
                             !.trace = Append(@, "log:entry")]]
            /\ proc' = "exited"
            /\ exitCode' = 1
       ELSE /\ builds' = [builds EXCEPT ![b] =
                   IF options.strict
                   THEN Invoke([@ EXCEPT !.trace = Append(@, "log:typeChecking")],
                               "typeCheck")
                   ELSE Invoke(@, "findImportMap")]
            /\ UNCHANGED <<proc, exitCode>>
    /\ UNCHANGED <<outWatch, loop2, main, options, fs, calls, watchVars>>

\* if (!(await typeCheck(entryPath))) throw new Error("Type checking failed");
typeCheckNoGate(r, ok) == Invoke(r, "findImportMap")
typeCheckGate(r, ok) ==
    IF ok THEN Invoke(r, "findImportMap") ELSE Throw(r, "typeCheck")

\* typeCheck(entryPath): `deno check` succeeds or not
TypeCheckDone(b) ==
    /\ proc = "running"
    /\ builds[b].pc = "typeCheck"
    /\ \E ok \in BOOLEAN :
         builds' = [builds EXCEPT ![b] =
             typeCheckGate([@ EXCEPT !.tc = IF ok THEN "pass" ELSE "fail"], ok)]
    /\ UNCHANGED <<outWatch, loop2, main, options, fs, proc, exitCode, calls, watchVars>>

\* const importMapPath = await findImportMap(); then, inside try, the first
\* await of the selected backend
AfterImportMap(r, o) ==
    IF o.useEsbuild
    THEN IF ~o.skipWrite THEN Invoke(r, "mkdir") ELSE Invoke(r, "esbuild")
    ELSE Invoke(r, "bundle")

FindImportMapDone(b) ==
    /\ proc = "running"
    /\ builds[b].pc = "findImportMap"
    /\ builds' = [builds EXCEPT ![b] =
           AfterImportMap([@ EXCEPT !.importMapPath = findImportMap(fs.maps)], options)]
    /\ UNCHANGED <<outWatch, loop2, main, options, fs, proc, exitCode, calls, watchVars>>

\* await Deno.mkdir(outDirPath, { recursive: true }), on either path
MkdirDone(b) ==
    /\ proc = "running"
    /\ builds[b].pc = "mkdir"
    /\ \E ok \in BOOLEAN :
         IF ok
         THEN /\ fs' = [fs EXCEPT !.outDir = TRUE]
              /\ builds' = [builds EXCEPT ![b] =
                     IF options.useEsbuild THEN Invoke(@, "esbuild")
                     ELSE Invoke(@, "writeTextFile")]
         ELSE /\ builds' = [builds EXCEPT ![b] = Catch(Fail(@, "mkdir"))]
              /\ UNCHANGED fs
    /\ UNCHANGED <<outWatch, loop2, main, options, proc, exitCode, calls, watchVars>>

\* the output file has been written: a watcher whose trees contain it will
\* report the change
Written(w) == IF w.inTree THEN [w EXCEPT !.pending = TRUE] ELSE w

\* esbuild.stop(): the statement after the awaited esbuild call, reached only
\* when that call resolved
esbuildStop(r) == [r EXCEPT !.trace = Append(@, "stop")]

\* buildWithEsbuild: esbuild.build writes the bundle to outfile (creating its
\* directory); the function takes no skipWrite and returns nothing
buildWithEsbuildReadsOutput(f, r, o) ==
    [f EXCEPT !.outDir = TRUE,
              !.outFile = EsbuildBundle(f.src + f.outFile.src, o.minify, r.importMapPath)]
buildWithEsbuild(f, r, o) ==
    [f EXCEPT !.outDir = TRUE,
              !.outFile = EsbuildBundle(f.src, o.minify, r.importMapPath)]

buildWithEsbuildResult(f, r, o) == Undefined

\* code = await buildWithEsbuild({...}); if (!skipWrite) console.log(...); return code
EsbuildDone(b) ==
    /\ proc = "running"
    /\ builds[b].pc = "esbuild"
    /\ \E ok \in BOOLEAN :
         IF ok
         THEN /\ fs' = buildWithEsbuild(fs, builds[b], options)
              /\ outWatch' = Written(outWatch)
              /\ builds' = [builds EXCEPT ![b] =
                     Return(esbuildStop(
                         [@ EXCEPT !.code = buildWithEsbuildResult(fs, builds[b], options)]))]
         ELSE /\ builds' = [builds EXCEPT ![b] = Catch(Fail(@, "esbuild"))]
              /\ UNCHANGED <<fs, outWatch>>
    /\ UNCHANGED <<loop2, main, options, proc, exitCode, calls, watchVars>>

\* after the code is final on the default path: persist it unless skipWrite
AfterCode(r, o) ==
    IF ~o.skipWrite THEN Invoke(r, "mkdir") ELSE Return(r)

\* if (minify) { code = await minifyCode(code); }
AfterBundleAlwaysMinify(r, o) == Invoke(r, "minify")
AfterBundle(r, o) == IF o.minify THEN Invoke(r, "minify") ELSE AfterCode(r, o)

\* const result = await bundle(entryPoint, bundleOptions); code = result.code;
\* if (minify) code = await minifyCode(code)
BundleDone(b) ==
    /\ proc = "running"
    /\ builds[b].pc = "bundle"
    /\ \E ok \in BOOLEAN :
         builds' = [builds EXCEPT ![b] =
             IF ok
             THEN AfterBundle([@ EXCEPT !.code =
                                   bundle(fs.src, builds[b].importMapPath)], options)
             ELSE Catch(Fail(@, "bundle"))]
    /\ UNCHANGED <<outWatch, loop2, main, options, fs, proc, exitCode, calls, watchVars>>

\* minifyCode(code): esbuild.transform, esbuild.stop, return result.code
MinifyDone(b) ==
    /\ proc = "running"
    /\ builds[b].pc = "minify"
    /\ \E ok \in BOOLEAN :
         builds' = [builds EXCEPT ![b] =
             IF ok THEN AfterCode(esbuildStop([@ EXCEPT !.code = minifyCode(@)]), options)
             ELSE Catch(Fail(@, "minify"))]
    /\ UNCHANGED <<outWatch, loop2, main, options, fs, proc, exitCode, calls, watchVars>>

\* await Deno.writeTextFile(outPath, code); console.log(...); return code
WriteDone(b) ==
    /\ proc = "running"
    /\ builds[b].pc = "writeTextFile"
    /\ \E ok \in BOOLEAN :
         IF ok
         THEN /\ fs' = [fs EXCEPT !.outFile = builds[b].code]
              /\ outWatch' = Written(outWatch)
              /\ builds' = [builds EXCEPT ![b] = Return(@)]
         ELSE /\ builds' = [builds EXCEPT ![b] = Catch(Fail(@, "writeTextFile"))]
              /\ UNCHANGED <<fs, outWatch>>
    /\ UNCHANGED <<loop2, main, options, proc, exitCode, calls, watchVars>>

BuildStep(b) ==
    \/ ExistsDone(b)
    \/ TypeCheckDone(b)
    \/ FindImportMapDone(b)
    \/ MkdirDone(b)
    \/ EsbuildDone(b)
    \/ BundleDone(b)
    \/ MinifyDone(b)
    \/ WriteDone(b)

----------------------------------------------------------------------------
(* watchAndRebuild() *)

\* paths are sequences of characters
P_ts == <<"/", "m", ".", "t", "s">>
P_tsx == <<"/", "m", ".", "t", "s", "x">>
P_js == <<"/", "m", ".", "j", "s">>
P_jsx == <<"/", "m", ".", "j", "s", "x">>
P_json == <<"/", "d", ".", "j", "s", "o", "n">>
P_bak == <<"/", "m", ".", "t", "s", "~">>
P_noext == <<"/", "t", "s">>

\* String.prototype.endsWith
endsWith(p, suffix) ==
    /\ Len(p) >= Len(suffix)
    /\ SubSeq(p, Len(p) - Len(suffix) + 1, Len(p)) = suffix

\* event.paths.some((p) => p.endsWith(".ts") || p.endsWith(".tsx") || ...)
hasRelevantFileAny(e) == e.paths # <<>>
hasRelevantFile(e) ==
    \E i \in DOMAIN e.paths :
        \/ endsWith(e.paths[i], <<".", "t", "s">>)
        \/ endsWith(e.paths[i], <<".", "t", "s", "x">>)
        \/ endsWith(e.paths[i], <<".", "j", "s">>)
        \/ endsWith(e.paths[i], <<".", "j", "s", "x">>)

\* if (event.kind !== "modify" && event.kind !== "create") continue;
kindPassesAny(e) == TRUE
kindPasses(e) == ~(e.kind # "modify" /\ e.kind # "create")

\* the events Deno.watchFs may deliver
Event(k, ps) == [kind |-> k, paths |-> ps]
Events ==
    {Event("modify", <<P_ts>>), Event("create", <<P_json, P_jsx>>),
     Event("modify", <<P_js, P_tsx>>), Event("remove", <<P_tsx>>),
     Event("modify", <<P_json>>), Event("create", <<P_bak, P_noext>>)}

\* clearTimeout(handle) and setTimeout(callback, delay) on the runtime's timers
clearTimeoutNoop(T, h) == T
clearTimeout(T, h) == {t \in T : t.id # h}
setTimeoutZero(T, id, delay) == T \cup {[id |-> id, rem |-> 0]}
setTimeout(T, id, delay) == T \cup {[id |-> id, rem |-> delay]}

Min(a, b) == IF a < b THEN a ELSE b
Max(a, b) == IF a > b THEN a ELSE b

\* observers: qualification as the documentation states it, independent of
\* the loop's own filter
RecognisedPaths == {P_ts, P_tsx, P_js, P_jsx}
IsQualifying(e) ==
    /\ e.kind \in {"modify", "create"}
    /\ \E i \in DOMAIN e.paths : e.paths[i] \in RecognisedPaths

\* one iteration of `for await (const event of watcher)`
LoopIteration(e) ==
    /\ proc = "running"
    /\ watching = "subscribed"
    /\ evCount + loop2.evCount < MaxEvents
    /\ evCount' = evCount + 1
    /\ lastEvent' = e
    /\ IF kindPasses(e) /\ hasRelevantFile(e)
       THEN /\ timers' = setTimeout(clearTimeout(timers, debounceTimeout),
                                    nextTimerId, DebounceDelay)
            /\ debounceTimeout' = nextTimerId
            /\ nextTimerId' = nextTimerId + 1
       ELSE UNCHANGED <<timers, debounceTimeout, nextTimerId>>
    /\ IF IsQualifying(e)
       THEN /\ sinceEvent' = 0
            /\ qualCount' = qualCount + 1
            /\ IF qualCount > 0 /\ sinceEvent < DebounceDelay
               THEN /\ burstLen' = burstLen + 1
                    /\ UNCHANGED burstStarts
               ELSE /\ burstLen' = 1
                    /\ burstStarts' = 0
       ELSE UNCHANGED <<sinceEvent, burstLen, burstStarts, qualCount>>
    /\ UNCHANGED <<loop2, main, options, fs, proc, exitCode, builds, calls, watching,
                   sawFailure>>

\* the watcher reports a change made by the user
FsEvent(e) ==
    /\ LoopIteration(e)
    /\ UNCHANGED outWatch

\* the watcher reports the change a build made to the output file: Deno.watchFs
\* watches root and watchDirs recursively and reports every write below them
OutputEvent ==
    /\ outWatch.pending
    /\ LoopIteration(Event("modify", <<outWatch.path>>))
    /\ outWatch' = [outWatch EXCEPT !.pending = FALSE]

\* TickMs of time pass
Tick ==
    /\ proc = "running"
    /\ watching # "off"
    /\ qualCount > 0 \/ timers # {}
    /\ sinceEvent < DebounceDelay \/ \E t \in timers : t.rem > 0
    /\ timers' = {[t EXCEPT !.rem = Max(0, @ - TickMs)] : t \in timers}
    /\ sinceEvent' = Min(DebounceDelay, sinceEvent + TickMs)
    /\ UNCHANGED <<outWatch, loop2, main, options, fs, proc, exitCode, builds, calls, watching,
                   debounceTimeout, nextTimerId, evCount, lastEvent,
                   burstLen, burstStarts, qualCount, sawFailure>>

FreeSlot(b) ==
    /\ builds[b].pc = "idle"
    /\ \A c \in Slots : c < b => builds[c].pc # "idle"

\* a due timer runs its callback: async () => { try { await build(options) ...
TimerFires(t, b) ==
    /\ proc = "running"
    /\ t \in timers
    /\ t.id \notin loop2.ids
    /\ t.rem = 0
    /\ FreeSlot(b)
    /\ timers' = timers \ {t}
    /\ builds' = [builds EXCEPT ![b] = StartBuild("timer")]
    /\ burstStarts' = Min(burstStarts + 1, 2)
    /\ UNCHANGED <<outWatch, loop2, main, options, fs, proc, exitCode, calls, watching, debounceTimeout,
                   nextTimerId, evCount, lastEvent, sinceEvent, burstLen, qualCount,
                   sawFailure>>

\* try { await build(options); } catch { /* already logged */ }
callbackNoCatch(r) == IF r.pc = "threw" THEN "exited" ELSE "running"
callbackCatch(r) == "running"

\* the callback resumes after its build settled; console.log("Watching for changes...")
RebuildSettled(b) ==
    /\ proc = "running"
    /\ builds[b].by = "timer"
    /\ Settled(b)
    /\ proc' = callbackCatch(builds[b])
    /\ exitCode' = IF proc' = "exited" THEN 1 ELSE exitCode
    /\ sawFailure' = (sawFailure \/ builds[b].pc = "threw")
    /\ builds' = [builds EXCEPT ![b] = IdleBuild]
    /\ UNCHANGED <<outWatch, loop2, main, options, fs, calls, watching, debounceTimeout, timers,
                   nextTimerId, evCount, lastEvent, sinceEvent, burstLen, burstStarts,
                   qualCount>>

\* the subscription ends: the for-await loop exits and
\* throw new Error("Watcher unexpectedly terminated")
WatcherEnds ==
    /\ proc = "running"
    /\ watching = "subscribed"
    /\ watching' = "terminated"
    /\ UNCHANGED <<outWatch, loop2, main, options, fs, proc, exitCode, builds, calls, debounceTimeout,
                   timers, nextTimerId, evCount, lastEvent, sinceEvent,
                   burstLen, burstStarts, qualCount, sawFailure>>

\* the user removes the entry file while the loop runs
RemoveEntry ==
    /\ proc = "running"
    /\ watching = "subscribed"
    /\ fs.entry
    /\ fs' = [fs EXCEPT !.entry = FALSE]
    /\ UNCHANGED <<outWatch, loop2, main, options, proc, exitCode, builds, calls, watchVars>>

----------------------------------------------------------------------------
(* States a run can start in *)

Options == [strict : BOOLEAN, useEsbuild : BOOLEAN, minify : BOOLEAN,
            skipWrite : BOOLEAN]

MapFiles == {"deno.json", "deno.jsonc", "import_map.json"}

\* an output file can only be present in an existing directory
FileSystems ==
    {f \in [entry : BOOLEAN, src : 1..NSrc, outDir : BOOLEAN,
            outFile : {NoFile, OldFile}, maps : SUBSET MapFiles] :
        f.outFile # NoFile => f.outDir}

NoEvent == [kind |-> "none", paths |-> <<>>]

InitRest ==
    /\ proc = "running"
    /\ exitCode = -1
    /\ builds = [b \in Slots |->
           [pc |-> "idle", code |-> Undefined, importMapPath |-> "undefined",
            err |-> "none", ret |-> Undefined, trace |-> <<>>, fs0 |-> fs,
            by |-> "none", tc |-> "none", prevFailed |-> FALSE, prev |-> NoPrev]]
    /\ calls = 0
    /\ debounceTimeout = 0
    /\ timers = {}
    /\ nextTimerId = 1
    /\ evCount = 0
    /\ lastEvent = NoEvent
    /\ sinceEvent = 0
    /\ burstLen = 0
    /\ burstStarts = 0
    /\ qualCount = 0
    /\ sawFailure = FALSE

\* no watcher has the output path in its trees
NoOutWatch == [path |-> <<>>, inTree |-> FALSE, pending |-> FALSE]

\* no second loop has been started
NoLoop2 == [watching |-> "off", debounceTimeout |-> 0, ids |-> {}, evCount |-> 0]

\* main() is not running: the program is used as a library
NoMain == [pc |-> "none", args |-> [help |-> FALSE, watch |-> FALSE], out |-> "none"]

(* A library caller that calls build() up to MaxCalls times, one after the other *)
Init ==
    /\ options \in Options
    /\ fs \in FileSystems
    /\ watching = "off"
    /\ main = NoMain
    /\ loop2 = NoLoop2
    /\ outWatch = NoOutWatch
    /\ InitRest

Next ==
    \/ CallBuild
    \/ EditSource
    \/ BuildStep(1)

Spec == Init /\ [][Next]_vars

(* watchAndRebuild(options) after a first build: the loop is subscribed *)
WatchOptions ==
    {o \in Options : ~o.skipWrite /\ (o.minify <=> ~o.useEsbuild) /\ (o.strict <=> o.minify)}

WatchFileSystems ==
    {f \in FileSystems : f.entry /\ f.src = 1 /\ f.outDir /\ f.outFile = OldFile
                         /\ f.maps = {"deno.jsonc", "import_map.json"}}

InitWatch ==
    /\ options \in WatchOptions
    /\ fs \in WatchFileSystems
    /\ watching = "subscribed"
    /\ main = NoMain
    /\ loop2 = NoLoop2
    /\ outWatch = NoOutWatch
    /\ InitRest

NextWatch ==
    \/ \E e \in Events : FsEvent(e)
    \/ Tick
    \/ \E t \in timers, b \in Slots : TimerFires(t, b)
    \/ \E b \in Slots : BuildStep(b)
    \/ \E b \in Slots : RebuildSettled(b)
    \/ WatcherEnds
    \/ RemoveEntry

SpecWatch == InitWatch /\ [][NextWatch]_vars

(* the same loop on a runtime that makes progress: time passes, a due timer's
   callback is run, an awaited operation settles and the callback awaiting a
   settled build() resumes *)
FairSpecWatch ==
    /\ SpecWatch
    /\ WF_vars(Tick)
    /\ WF_vars(\E t \in timers, b \in Slots : TimerFires(t, b))
    /\ \A b \in Slots : WF_vars(BuildStep(b))
    /\ \A b \in Slots : WF_vars(RebuildSettled(b))

(* the loop with every placement of the output path: outDir inside or outside
   root and watchDirs, outFile with or without a recognised extension *)
P_outJs == <<"/", "o", ".", "j", "s">>
P_outMjs == <<"/", "o", ".", "m", "j", "s">>

OutWatches == [path : {P_outJs, P_outMjs}, inTree : BOOLEAN, pending : {FALSE}]

InitOutWatch ==
    /\ options \in WatchOptions
    /\ fs \in WatchFileSystems
    /\ watching = "subscribed"
    /\ main = NoMain
    /\ loop2 = NoLoop2
    /\ outWatch \in OutWatches
    /\ InitRest

NextOutWatch ==
    \/ \E e \in Events : FsEvent(e)
    \/ OutputEvent
    \/ Tick
    \/ \E t \in timers, b \in Slots : TimerFires(t, b)
    \/ \E b \in Slots : BuildStep(b)
    \/ \E b \in Slots : RebuildSettled(b)

SpecOutWatch == InitOutWatch /\ [][NextOutWatch]_vars

----------------------------------------------------------------------------
(* Two watchAndRebuild(options) loops in one process.  Each call has its own
   watcher and its own `let debounceTimeout`; the timer table, the build
   invocations, the file system and the process are shared. *)

\* the events the second watcher may deliver
Events2 == {Event("modify", <<P_ts>>), Event("modify", <<P_json>>)}

\* one iteration of the second loop's `for await (const event of watcher)`
FsEvent2(e) ==
    /\ proc = "running"
    /\ loop2.watching = "subscribed"
    /\ evCount + loop2.evCount < MaxEvents
    /\ IF kindPasses(e) /\ hasRelevantFile(e)
       THEN /\ timers' = setTimeout(clearTimeout(timers, loop2.debounceTimeout),
                                    nextTimerId, DebounceDelay)
            /\ loop2' = [loop2 EXCEPT !.debounceTimeout = nextTimerId,
                                      !.ids = @ \cup {nextTimerId},
                                      !.evCount = @ + 1]
            /\ nextTimerId' = nextTimerId + 1
       ELSE /\ loop2' = [loop2 EXCEPT !.evCount = @ + 1]
            /\ UNCHANGED <<timers, nextTimerId>>
    /\ UNCHANGED <<outWatch, main, options, fs, proc, exitCode, builds, calls, watching,
                   debounceTimeout, evCount, lastEvent, sinceEvent, burstLen,
                   burstStarts, qualCount, sawFailure>>

\* a due timer of the second loop runs its callback
TimerFires2(t, b) ==
    /\ proc = "running"
    /\ t \in timers
    /\ t.rem = 0
    /\ t.id \in loop2.ids
    /\ FreeSlot(b)
    /\ timers' = timers \ {t}
    /\ builds' = [builds EXCEPT ![b] = StartBuild("timer2")]
    /\ UNCHANGED <<outWatch, loop2, main, options, fs, proc, exitCode, calls, watchVars_noTimers>>

\* the second loop's callback resumes after its build settled
RebuildSettled2(b) ==
    /\ proc = "running"
    /\ builds[b].by = "timer2"
    /\ Settled(b)
    /\ proc' = callbackCatch(builds[b])
    /\ exitCode' = IF proc' = "exited" THEN 1 ELSE exitCode
    /\ builds' = [builds EXCEPT ![b] = IdleBuild]
    /\ UNCHANGED <<outWatch, loop2, main, options, fs, calls, watchVars>>

InitTwoLoops ==
    /\ options \in WatchOptions
    /\ fs \in WatchFileSystems
    /\ watching = "subscribed"
    /\ main = NoMain
    /\ loop2 = [NoLoop2 EXCEPT !.watching = "subscribed"]
    /\ outWatch = NoOutWatch
    /\ InitRest

NextTwoLoops ==
    \/ \E e \in Events : FsEvent(e)
    \/ \E e \in Events2 : FsEvent2(e)
    \/ Tick
    \/ \E t \in timers, b \in Slots : TimerFires(t, b)
    \/ \E t \in timers, b \in Slots : TimerFires2(t, b)
    \/ \E b \in Slots : BuildStep(b)
    \/ \E b \in Slots : RebuildSettled(b)
    \/ \E b \in Slots : RebuildSettled2(b)
    \/ RemoveEntry

SpecTwoLoops == InitTwoLoops /\ [][NextTwoLoops]_vars

----------------------------------------------------------------------------
(* The CLI: main() *)

\* if (args.help) { printUsage(); Deno.exit(0); }
helpIgnored(a) == FALSE
helpRequested(a) == a.help

\* getPackageInfo and parseArgs are done; help short-circuits, otherwise the
\* options are assembled and build(options) is called
MainParsed ==
    /\ proc = "running"
    /\ main.pc = "getPackageInfo"
    /\ IF helpRequested(main.args)
       THEN /\ main' = [main EXCEPT !.pc = "exit", !.out = "usage"]
            /\ proc' = "exited"
            /\ exitCode' = 0
            /\ UNCHANGED builds
       ELSE /\ main' = [main EXCEPT !.pc = "build"]
            /\ builds' = [builds EXCEPT ![1] = StartBuild("main")]
            /\ UNCHANGED <<proc, exitCode>>
    /\ UNCHANGED <<outWatch, loop2, options, fs, calls, watchVars>>

\* else if (args.watch) { await watchAndRebuild(options); }
watchAlways(a) == TRUE
watchRequested(a) == a.watch

\* const code = await build(options) resolved:
\* if (skipWrite) console.log(code); else if (args.watch) await watchAndRebuild(options)
MainBuildReturned ==
    /\ proc = "running"
    /\ main.pc = "build"
    /\ builds[1].pc = "returned"
    /\ IF options.skipWrite
       THEN /\ main' = [main EXCEPT !.pc = "done", !.out = "code"]
            /\ UNCHANGED watching
       ELSE IF watchRequested(main.args)
            THEN /\ main' = [main EXCEPT !.pc = "watchAndRebuild"]
                 /\ watching' = "subscribed"
            ELSE /\ main' = [main EXCEPT !.pc = "done"]
                 /\ UNCHANGED watching
    /\ UNCHANGED <<outWatch, loop2, options, fs, proc, exitCode, builds, calls, debounceTimeout, timers,
                   nextTimerId, evCount, lastEvent, sinceEvent, burstLen, burstStarts,
                   qualCount, sawFailure>>

\* await build(options) rejected: main() has no catch, the rejection is
\* unhandled and the runtime ends the process with status 1
MainBuildThrew ==
    /\ proc = "running"
    /\ main.pc = "build"
    /\ builds[1].pc = "threw"
    /\ main' = [main EXCEPT !.pc = "threw"]
    /\ proc' = "exited"
    /\ exitCode' = 1
    /\ UNCHANGED <<outWatch, loop2, options, fs, builds, calls, watchVars>>

Args == [help : BOOLEAN, watch : BOOLEAN]

(* deno run -A cli.ts [flags]: main() starts with the parsed flags *)
InitCli ==
    /\ options \in Options
    /\ fs \in FileSystems
    /\ watching = "off"
    /\ main \in [pc : {"getPackageInfo"}, args : Args, out : {"none"}]
    /\ loop2 = NoLoop2
    /\ outWatch = NoOutWatch
    /\ InitRest

NextCli ==
    \/ MainParsed
    \/ BuildStep(1)
    \/ MainBuildReturned
    \/ MainBuildThrew

SpecCli == InitCli /\ [][NextCli]_vars

----------------------------------------------------------------------------
(* Properties of build() *)

Did(b, op) == \E i \in DOMAIN builds[b].trace : builds[b].trace[i] = op

Called(b) == builds[b].pc # "idle"

\* C1: a build() call whose entry path does not exist ends the process with
\* a non-zero exit status, and before that no type check is run, no bundler
\* is invoked, no output directory is created and no output file is written.
C1_MissingEntryExits ==
    \A b \in Slots :
        (Called(b) /\ builds[b].pc # "exists" /\ ~builds[b].fs0.entry) =>
            /\ builds[b].pc = "exit"
            /\ proc = "exited"
            /\ exitCode # 0
            /\ ~Did(b, "typeCheck")
            /\ ~Did(b, "bundle") /\ ~Did(b, "esbuild") /\ ~Did(b, "minify")
            /\ ~Did(b, "mkdir") /\ ~Did(b, "writeTextFile")
            /\ fs = builds[b].fs0

C1_Witness ==
    /\ builds[1].pc = "exit"
    /\ ~builds[1].fs0.entry
    /\ proc = "exited"

\* C2: with strict=true and a failing type check, build() fails with the
\* type-check error, no bundler backend and no minifier is invoked, and the
\* output directory and output file are neither created nor modified.
C2_StrictGate ==
    \A b \in Slots :
        (options.strict /\ builds[b].tc = "fail") =>
            /\ builds[b].pc = "threw"
            /\ builds[b].err = "typeCheck"
            /\ ~Did(b, "bundle") /\ ~Did(b, "esbuild") /\ ~Did(b, "minify")
            /\ ~Did(b, "mkdir") /\ ~Did(b, "writeTextFile")
            /\ fs.outDir = builds[b].fs0.outDir
            /\ fs.outFile = builds[b].fs0.outFile

C2_Witness ==
    /\ options.strict
    /\ builds[1].tc = "fail"
    /\ builds[1].pc = "threw"

\* C3: with skipWrite=true, on either backend, build() creates no output
\* directory and writes no output file: the file system is as it was at the
\* call, during the call and when it returns.
C3_SkipWriteNoDisk ==
    \A b \in Slots :
        (options.skipWrite /\ Called(b)) => fs = builds[b].fs0

\* C4: every successful build() returns the bundled code, a non-empty
\* string, on both backends and for both values of skipWrite.
C4_ReturnsCode ==
    \A b \in Slots : builds[b].pc = "returned" => IsCode(builds[b].ret)

\* C5: after a successful build() with skipWrite=false the output file exists
\* and holds exactly the string build() returned, on both backends, with or
\* without minify.
C5_FileIsReturnedCode ==
    \A b \in Slots :
        (builds[b].pc = "returned" /\ ~options.skipWrite) =>
            /\ fs.outDir
            /\ fs.outFile # NoFile
            /\ fs.outFile = builds[b].ret

\* C6: when the entry exists, a failure of any later step (type check,
\* bundler, minify, mkdir, file write) makes build() throw: it never returns
\* normally after such a failure.
C6_FailuresAreThrown ==
    \A b \in Slots :
        (builds[b].tc = "fail" \/ builds[b].err \notin {"none", "entry"}) =>
            /\ builds[b].pc = "threw"
            /\ builds[b].ret = Undefined

C6_Witness ==
    /\ builds[1].fs0.entry
    /\ builds[1].err = "writeTextFile"
    /\ builds[1].code # Undefined
    /\ builds[1].pc = "threw"

----------------------------------------------------------------------------
(* Properties of watchAndRebuild() *)

Delivered == evCount' = evCount + 1

Armed(T, h) == \E t \in T : t.id = h /\ t.rem = DebounceDelay

\* C7: a rebuild that fails with a thrown build error neither ends the
\* process nor the subscription, and a qualifying event after such a failure
\* still arms the debounce timer that starts the next rebuild.
C7_LoopSurvivesFailedRebuild ==
    [][ /\ \A b \in Slots :
             ( /\ builds[b].by = "timer"
               /\ builds'[b] # builds[b]
               /\ (builds[b].pc = "threw" \/ builds'[b].pc = "threw") ) =>
                 (proc' = "running" /\ watching' = watching)
        /\ ( sawFailure /\ Delivered /\ IsQualifying(lastEvent') ) =>
                 (watching' = "subscribed" /\ Armed(timers', debounceTimeout'))
      ]_vars

\* a rebuild that was started after an earlier rebuild had thrown has succeeded
C7_Witness ==
    /\ sawFailure
    /\ watching = "subscribed"
    /\ proc = "running"
    /\ \E b \in Slots :
         /\ builds[b].by = "timer"
         /\ builds[b].prevFailed
         /\ builds[b].pc = "returned"

\* C8 (as claimed): once subscribed, the loop and its process stop only when
\* the subscription ends; no outcome of a rebuild, the entry file having been
\* removed included, ends them.
C8_OnlySubscriptionEndStops ==
    [][ (watching = "subscribed" /\ proc = "running") =>
            /\ proc' = "running"
            /\ watching' \in {"subscribed", "terminated"}
      ]_vars

\* C8 (amended): once subscribed, the loop stops only when the subscription
\* ends, and the process stops only when a rebuild finds the entry file
\* missing (Deno.exit(1)); no other outcome of a rebuild ends either.
C8_StopsOnlyOnEndOrMissingEntry ==
    [][ (watching = "subscribed" /\ proc = "running") =>
            /\ watching' \in {"subscribed", "terminated"}
            /\ watching' = "terminated" => (proc' = "running" /\ builds' = builds)
            /\ proc' # "running" =>
                 /\ ~fs.entry
                 /\ exitCode' = 1
                 /\ \E b \in Slots :
                      /\ builds[b].pc = "exists"
                      /\ builds'[b].pc = "exit"
                      /\ \A c \in Slots \ {b} : builds'[c] = builds[c]
      ]_vars

C8_Witness ==
    /\ proc = "exited"
    /\ exitCode = 1
    /\ watching = "subscribed"
    /\ sawFailure
    /\ \E b \in Slots : builds[b].by = "timer" /\ builds[b].pc = "exit"

\* C9: for a burst of N >= 1 qualifying events, each less than the debounce
\* delay after the one before, exactly one rebuild is started: until it
\* starts exactly one timer is armed, and it starts no earlier than the
\* debounce delay after the last event of the burst.
C9_DebounceCollapsesBurst ==
    burstLen >= 1 =>
        \/ /\ burstStarts = 0
           /\ Cardinality(timers) = 1
           /\ \E t \in timers : t.id = debounceTimeout
                                /\ t.rem + sinceEvent >= DebounceDelay
        \/ /\ burstStarts = 1
           /\ timers = {}
           /\ sinceEvent >= DebounceDelay

C9_Witness ==
    /\ burstLen = 3
    /\ burstStarts = 1
    /\ \E b \in Slots : builds[b].by = "timer" /\ builds[b].pc = "exists"
    /\ \A b \in Slots : builds[b].pc \in {"idle", "exists"}

\* C10: an event whose kind is neither modify nor create, or none of whose
\* paths ends in .ts, .tsx, .js or .jsx, changes nothing (no timer is
\* cancelled or armed, no rebuild starts); before the first qualifying event
\* no timer is armed and no rebuild runs; a single qualifying event leads to
\* exactly one rebuild, not before the debounce delay has passed.
C10_FilterIgnoresOtherEvents ==
    /\ [][ (Delivered /\ ~IsQualifying(lastEvent')) =>
               UNCHANGED <<timers, debounceTimeout, nextTimerId, builds, fs, proc,
                           watching>> ]_vars
    /\ [][ (Delivered /\ IsQualifying(lastEvent')) =>
               Armed(timers', debounceTimeout') ]_vars
    /\ [](qualCount = 0 =>
             (timers = {} /\ \A b \in Slots : builds[b].pc = "idle"))
    /\ [](qualCount = 1 =>
             \/ burstStarts = 0 /\ Cardinality(timers) = 1
             \/ burstStarts = 1 /\ timers = {} /\ sinceEvent >= DebounceDelay)

C10_Witness ==
    /\ qualCount = 1
    /\ evCount = 3
    /\ ~IsQualifying(lastEvent)
    /\ burstStarts = 1
    /\ \E b \in Slots : builds[b].by = "timer" /\ builds[b].pc = "returned"

\* an invocation that has been called and has neither settled nor exited
InFlight(b) == builds[b].pc \notin {"idle", "returned", "threw", "exit"}

\* C11: within one watch loop at most one build() call is in flight at any
\* time: a rebuild never starts while an earlier rebuild of the loop has not
\* settled.
C11_OneBuildAtATime ==
    Cardinality({b \in Slots : builds[b].by = "timer" /\ InFlight(b)}) <= 1

\* C12: whenever the esbuild backend is invoked (buildWithEsbuild, or
\* minifyCode on the default path), its stop step runs on every exit path of
\* that invocation, when the esbuild call succeeds and when it throws.
C12_StopOnEveryExit ==
    \A b \in Slots :
        ( \/ Did(b, "esbuild") /\ builds[b].pc # "esbuild"
          \/ Did(b, "minify") /\ builds[b].pc # "minify" ) => Did(b, "stop")

C14_HelpShortCircuits ==
    main.args.help =>
        /\ \A b \in Slots : ~Called(b)
        /\ watching = "off"
        /\ main.pc \in {"getPackageInfo", "exit"}
        /\ main.pc = "exit" => /\ main.out = "usage"
                               /\ proc = "exited"
                               /\ exitCode = 0

\* help given together with --watch, --skip-write and --strict
C14_Witness ==
    /\ main.args.help
    /\ main.args.watch
    /\ options.skipWrite
    /\ options.strict
    /\ main.pc = "exit"
    /\ exitCode = 0

\* position of a step in the documented sequence, 0 for console lines
StepRank(op) ==
    CASE op = "exists" -> 1
      [] op = "typeCheck" -> 2
      [] op = "findImportMap" -> 3
      [] op \in {"bundle", "esbuild"} -> 4
      [] op = "minify" -> 5
      [] op = "mkdir" -> 6
      [] op = "writeTextFile" -> 7
      [] OTHER -> 0

\* C15: in every execution of build the steps occur in the order existence
\* check, type check (iff strict), import-map discovery, bundler, minify,
\* directory creation, file write, each starting only after the one before
\* succeeded; so no directory creation or file write precedes the bundler's
\* successful return, and a build whose bundler fails leaves the output
\* directory and file as they were (both backends).
C15_StepOrder ==
    \A b \in Slots :
        LET t == builds[b].trace IN
        /\ \A i, j \in DOMAIN t :
               (i < j /\ StepRank(t[i]) > 0 /\ StepRank(t[j]) > 0)
                   => StepRank(t[i]) < StepRank(t[j])
        /\ Did(b, "typeCheck") => options.strict
        /\ (Did(b, "findImportMap") /\ options.strict) => Did(b, "typeCheck")
        /\ builds[b].err \in {"bundle", "esbuild"} =>
               /\ fs.outDir = builds[b].fs0.outDir
               /\ fs.outFile = builds[b].fs0.outFile

Count(b, op) ==
    Cardinality({i \in DOMAIN builds[b].trace : builds[b].trace[i] = op})

\* C16: minifyCode is invoked exactly once per build when useEsbuild is false
\* and minify is true, on the bundler's output and before the file write, so
\* the written and returned code is the minified code; it is never invoked
\* when minify is false or useEsbuild is true (esbuild gets the minify flag),
\* so code is never minified twice.
C16_MinifyOnce ==
    \A b \in Slots :
        LET t == builds[b].trace IN
        /\ Count(b, "minify") <= 1
        /\ \A i \in DOMAIN t : t[i] = "minify" =>
               /\ ~options.useEsbuild /\ options.minify
               /\ i > 1 /\ t[i - 1] = "bundle"
               /\ \A j \in 1..i : t[j] # "writeTextFile"
        /\ (builds[b].pc = "returned" /\ ~options.useEsbuild) =>
               /\ Count(b, "minify") = (IF options.minify THEN 1 ELSE 0)
               /\ builds[b].ret.min = options.minify
               /\ ~options.skipWrite => fs.outFile = builds[b].ret
        /\ (builds[b].pc = "returned" /\ options.useEsbuild) =>
               fs.outFile.min = options.minify

C16_Witness ==
    /\ builds[1].pc = "returned"
    /\ ~options.useEsbuild /\ options.minify /\ ~options.skipWrite
    /\ Count(1, "minify") = 1
    /\ builds[1].ret.min
    /\ fs.outFile = builds[1].ret

\* C17: every failure of build (entry not found, type-check failure, bundle,
\* minify or write failure) makes build itself print a timestamped error line
\* before the failure reaches the caller or the process exits.
C17_EveryFailureLogged ==
    \A b \in Slots :
        /\ builds[b].pc = "exit" => Did(b, "log:entry")
        /\ builds[b].pc = "threw" => Did(b, "log:failed")

\* C18: in every reachable state of a watch loop at most one debounce timer
\* is armed, and it is the one the loop's handle names: each qualifying event
\* cancels the previously armed timer, if any, before it arms a new one.
C18_AtMostOneArmedTimer ==
    /\ [](Cardinality(timers) <= 1 /\ \A t \in timers : t.id = debounceTimeout)
    /\ [][ (Delivered /\ IsQualifying(lastEvent')) =>
               /\ \A t \in timers' : t.id # debounceTimeout
               /\ timers' = {[id |-> debounceTimeout', rem |-> DebounceDelay]}
         ]_vars

\* a qualifying event found the timer of the event before it still armed
C18_Witness ==
    /\ qualCount >= 2
    /\ burstLen >= 2
    /\ burstStarts = 0
    /\ debounceTimeout = 2
    /\ timers = {[id |-> 2, rem |-> DebounceDelay]}

\* some rebuild of the loop is in flight
Rebuilding == \E b \in Slots : builds[b].by = "timer" /\ InFlight(b)

\* C19 (as claimed): a qualifying event that arrives while a rebuild is in
\* flight is not dropped: the timer it arms always leads to a further rebuild
\* that starts after the event.
C19_EventDuringRebuildRebuilds ==
    (Rebuilding /\ timers # {}) ~> (timers = {})

\* C19 (amended): a qualifying event that arrives while a rebuild is in
\* flight arms a debounce timer and leaves the rebuild alone; an armed timer
\* leaves the timer table only by being replaced by a later event's timer or
\* by firing, which starts a rebuild; and a further rebuild is started after
\* the event unless the process has exited first (a rebuild in flight found
\* the entry file missing).
C19_EventDuringRebuildKept ==
    /\ [][ (Delivered /\ IsQualifying(lastEvent') /\ Rebuilding) =>
               /\ Armed(timers', debounceTimeout')
               /\ builds' = builds
         ]_vars
    /\ [][ (timers # {} /\ timers' = {}) =>
               \E b \in Slots : /\ builds[b].pc = "idle"
                                /\ builds'[b].pc = "exists"
                                /\ builds'[b].by = "timer"
         ]_vars
    /\ (Rebuilding /\ timers # {}) ~> (timers = {} \/ proc = "exited")

\* the rebuild of an event that arrived during a rebuild has started while
\* that rebuild is still in flight
C19_Witness ==
    /\ qualCount >= 2
    /\ timers = {}
    /\ \E b, c \in Slots :
         /\ b # c
         /\ builds[b].by = "timer" /\ builds[b].pc \in {"bundle", "esbuild"}
         /\ builds[c].by = "timer" /\ builds[c].pc = "exists"

\* r2 is r after zero or more further steps of the same invocation
Progressed(r, r2) ==
    /\ r2.by = r.by
    /\ r2.pc # "idle"
    /\ Len(r2.trace) >= Len(r.trace)
    /\ SubSeq(r2.trace, 1, Len(r.trace)) = r.trace

\* C20: once a rebuild has started it runs to completion, success or
\* failure: its state changes only by the completion of its own awaited
\* operations, never in a step that delivers an event or cancels, arms or
\* fires a timer, and nothing in the loop keeps it from settling.
C20_RunsToCompletion ==
    /\ [][ \A b \in Slots :
             (builds[b].by = "timer" /\ InFlight(b) /\ builds'[b] # builds[b]) =>
                 /\ Progressed(builds[b], builds'[b])
                 /\ UNCHANGED <<timers, debounceTimeout, evCount>>
         ]_vars
    /\ \A b \in Slots : (builds[b].by = "timer" /\ InFlight(b)) ~> ~InFlight(b)

\* the invocation is suspended in a call served by the esbuild service
UsesEsbuild(r) == r.pc \in {"esbuild", "minify"}

\* the step in which invocation b's esbuild call resolves and esbuild.stop() runs
StopStep(b) ==
    /\ UsesEsbuild(builds[b])
    /\ builds'[b] # builds[b]
    /\ builds'[b].err = "none"

\* C21: the esbuild service is acquired and released within one backend
\* call and is never affected by another call: the stop step of one
\* invocation never runs while a different invocation of the same process is
\* still using the service.
C21_StopNeverHitsOtherCall ==
    [][ \A b \in Slots :
            StopStep(b) => \A c \in Slots \ {b} : ~UsesEsbuild(builds[c])
      ]_vars

\* the loop that owns rebuild r
OtherLoop(who) == IF who = "timer" THEN "timer2" ELSE "timer"

\* C22: two watch loops of one process do not interfere: an event delivered
\* to one loop never cancels, re-arms or fires the other loop's timer, a
\* timer starts a rebuild of the loop that armed it only, and a step of one
\* loop's rebuild never changes what becomes of a rebuild of the other loop:
\* it neither ends the process under it nor stops the esbuild service it is
\* using.
C22_LoopsDoNotInterfere ==
    [][ /\ loop2.evCount' # loop2.evCount =>
               /\ {t \in timers' : t.id \notin loop2.ids'} =
                      {t \in timers : t.id \notin loop2.ids}
               /\ debounceTimeout' = debounceTimeout
               /\ builds' = builds
        /\ Delivered =>
               /\ {t \in timers' : t.id \in loop2.ids'} =
                      {t \in timers : t.id \in loop2.ids}
               /\ loop2' = loop2
               /\ builds' = builds
        /\ \A b \in Slots :
               (builds[b].pc = "idle" /\ builds'[b].pc # "idle") =>
                   \E t \in timers \ timers' :
                       (t.id \in loop2.ids) <=> (builds'[b].by = "timer2")
        /\ \A b, c \in Slots :
               ( /\ builds[b].by \in {"timer", "timer2"}
                 /\ builds'[b] # builds[b]
                 /\ builds[c].by = OtherLoop(builds[b].by)
                 /\ InFlight(c) ) =>
                   /\ proc' = "running"
                   /\ StopStep(b) => ~UsesEsbuild(builds[c])
      ]_vars

\* the documented priority: deno.json, then deno.jsonc, then import_map.json
ExpectedImportMap(present) ==
    CASE "deno.json" \in present -> "deno.json"
      [] "deno.json" \notin present /\ "deno.jsonc" \in present -> "deno.jsonc"
      [] {"deno.json", "deno.jsonc"} \cap present = {}
             /\ "import_map.json" \in present -> "import_map.json"
      [] present = {} -> "undefined"

\* C23: findImportMap returns the first existing file among deno.json,
\* deno.jsonc, import_map.json, for every combination of which of the three
\* exist, and none when all are absent; build treats none as a normal case:
\* it goes on to the backend, which bundles without an import map, and no
\* failure of the build comes from the discovery.
C23_ImportMapPriority ==
    \A b \in Slots :
        (Did(b, "findImportMap") /\ builds[b].pc # "findImportMap") =>
            /\ builds[b].importMapPath = ExpectedImportMap(builds[b].fs0.maps)
            /\ Did(b, "bundle") \/ Did(b, "esbuild") \/ Did(b, "mkdir")
            /\ builds[b].err \in {"none", "bundle", "esbuild", "minify", "mkdir",
                                  "writeTextFile"}
            /\ IsCode(builds[b].code) => builds[b].code.map = builds[b].importMapPath
            /\ (builds[b].pc = "returned" /\ IsCode(fs.outFile)) =>
                   fs.outFile.map = builds[b].importMapPath

\* deno.jsonc and import_map.json exist, deno.json does not
C23_Witness ==
    /\ builds[1].fs0.maps = {"deno.jsonc", "import_map.json"}
    /\ builds[1].pc = "returned"
    /\ builds[1].importMapPath = "deno.jsonc"
    /\ IsCode(builds[1].ret)
    /\ builds[1].ret.map = "deno.jsonc"

\* C24: quiescence: a rebuild's own write of the output file never counts as
\* a qualifying event, wherever outDir and outFile place it: the report of
\* that write arms no timer, so once the user's events have stopped no
\* further rebuild is caused by the loop itself.
C24_OwnWriteArmsNothing ==
    [][ (outWatch.pending /\ ~outWatch'.pending) =>
            UNCHANGED <<timers, debounceTimeout, nextTimerId>> ]_vars

C26_NoRebuildAfterTermination ==
    [][ watching = "terminated" =>
            \A b \in Slots : builds[b].pc = "idle" => builds'[b].pc = "idle"
      ]_vars

====
